---- MODULE Spec2Model ----
(***************************************************************************)
(* Model of the insurance data manager of Assignment-1.py: the two         *)
(* in-memory maps of InsuranceDataManager, the JSON snapshot file          *)
(* insurance_data.json, the wall clock read by datetime.now(), and the     *)
(* mutating and querying methods of the manager.                           *)
(*                                                                         *)
(* Conventions.                                                            *)
(*  - A uuid4 string is modelled by a natural number; the n-th call of     *)
(*    uuid.uuid4() yields n, so that ids are unique as uuid4 promises.     *)
(*  - A "%Y-%m-%d" date string is modelled by its day number; a datetime   *)
(*    is a record [day, tod] where tod is the time elapsed since midnight. *)
(*  - Amounts are integers; the float comparison ratio > 0.8 is modelled   *)
(*    exactly as 5 * total > 4 * sum_insured.                              *)
(*  - A Python dict is a function; its iteration order is not modelled,    *)
(*    so a list built with one entry per key is the set of its entries.    *)
(*  - Every method call leaves its arguments and outcome (value returned,  *)
(*    exception raised, message shown with st.error) in the variable call. *)
(*                                                                         *)
(* Specifications.                                                         *)
(*  - Spec: the three mutating methods, called with arguments they accept  *)
(*    and arguments they reject, and new sessions, on a reliable disk.     *)
(*  - SpecLife: the three mutating methods while the clock moves on.       *)
(*  - SpecRisk: claims filed while the clock moves on, and the two risk    *)
(*    queries.                                                             *)
(*  - SpecDisk: a store constructed over whatever file is found, mutated   *)
(*    with accepted arguments over a disk whose writes may fail, across    *)
(*    sessions.                                                            *)
(*  - SpecReports: claims filed and settled with any status string, and    *)
(*    the reports of RiskAnalyzer and ReportsGenerator over them.          *)
(***************************************************************************)
EXTENDS Integers, Sequences, FiniteSets, TLC

VARIABLES policyholders, claims, snapshot, now, uuids, call

vars == <<policyholders, claims, snapshot, now, uuids, call>>

----------------------------------------------------------------------------
(* Bounds of the model and sampled inputs *)

MaxPolicyholders == 2
MaxClaims == 4
\* uuid4 is called at most this often
MaxUuids == MaxPolicyholders + MaxClaims

DefaultDays == 365
FrequencyThreshold == 3
RatioNum == 4
RatioDen == 5

\* add_policyholder(name, age, policy_type, sum_insured): two calls the method
\* accepts, and one it rejects for each of its three tests
ValidPolicyholders == { <<"Ann", 30, "Health", 10>>, <<"Bob", 45, "Life", 5>> }
InvalidPolicyholders ==
    { <<"", 30, "Health", 10>>, <<"Ann", 0, "Health", 10>>, <<"Ann", 30, "Health", 0>> }
PolicyholderInputs == ValidPolicyholders \cup InvalidPolicyholders
Reasons == {"accident"}
\* add_claim(policyholder_id, claim_amount, reason, status): each of the given
\* statuses with a positive amount for a known policyholder; a zero amount; an
\* id never issued, with either amount
ValidClaims(statuses) ==
    {<<id, 2, r, s>> : id \in DOMAIN policyholders, r \in Reasons, s \in statuses}
InvalidClaims ==
    {<<id, 0, "accident", "Pending">> : id \in DOMAIN policyholders}
    \cup {<<uuids + 1, a, "accident", "Pending">> : a \in {0, 2}}
ClaimInputs(statuses) == ValidClaims(statuses) \cup InvalidClaims
\* update_claim_status(claim_id, status): a known claim, and an id never issued
ValidStatusChanges(statuses) == {<<id, s>> : id \in DOMAIN claims, s \in statuses}
InvalidStatusChanges == {<<uuids + 1, "Approved">>}
StatusInputs(statuses) == ValidStatusChanges(statuses) \cup InvalidStatusChanges
\* calculate_claim_frequency(policyholder_id, days)
WindowDays == {DefaultDays - 1, DefaultDays}
FrequencyInputs == {<<id, d>> : id \in DOMAIN policyholders, d \in WindowDays}
\* the instants at which the clock is read: the first day at midnight, and the
\* day DefaultDays later at midnight and later in the day
Instants ==
    { [day |-> 0, tod |-> 0], [day |-> DefaultDays, tod |-> 0],
      [day |-> DefaultDays, tod |-> 1] }

NoError == "none"
InvalidPolicyholder == "ValueError: Invalid input: Name cannot be empty, age and sum insured must be positive"
PolicyholderNotFound == "ValueError: Policyholder not found"
InvalidAmount == "ValueError: Claim amount must be positive"
ClaimNotFound == "ValueError: Claim not found"
SaveError == "Error saving data"
LoadError == "Error loading data"
\* self.data_manager.policyholders[claim.policyholder_id] with no such key
KeyErrorPolicyholder == "KeyError: policyholder_id"
\* policy_claims[policy_type][claim.status.lower()] with no such key
KeyErrorStatus == "KeyError: status"

----------------------------------------------------------------------------
(* Data models *)

PolicyholderFields == {"id", "name", "age", "policy_type", "sum_insured"}
ClaimFields == {"id", "policyholder_id", "claim_amount", "reason", "status", "date_of_claim"}

EmptyMap == [k \in {} |-> {}]

\* str(uuid.uuid4()): an id never issued before
uuid4 == uuids + 1

\* dict[key] = value: insert or overwrite
Put(map, key, value) == [k \in DOMAIN map \cup {key} |-> IF k = key THEN value ELSE map[k]]

Policyholder(id, name, age, policy_type, sum_insured) ==
    [id |-> id, name |-> name, age |-> age, policy_type |-> policy_type,
     sum_insured |-> sum_insured]

Claim(id, policyholder_id, claim_amount, reason, status, date_of_claim) ==
    [id |-> id, policyholder_id |-> policyholder_id, claim_amount |-> claim_amount,
     reason |-> reason, status |-> status, date_of_claim |-> date_of_claim]

\* asdict(self): a dict with one key per dataclass field
Policyholder_to_dict(p) == [f \in PolicyholderFields |-> p[f]]
Claim_to_dict(c) == [f \in ClaimFields |-> c[f]]

\* cls(**data) raises TypeError unless the keys are exactly the fields
Policyholder_from_dict_ok(d) == DOMAIN d = PolicyholderFields
Policyholder_from_dict(d) ==
    Policyholder(d["id"], d["name"], d["age"], d["policy_type"], d["sum_insured"])
\* variant with a slip: two string fields change places
Claim_from_dict_swapped(d) ==
    Claim(d["id"], d["policyholder_id"], d["claim_amount"], d["status"], d["reason"],
          d["date_of_claim"])

Claim_from_dict_ok(d) == DOMAIN d = ClaimFields
Claim_from_dict(d) ==
    Claim(d["id"], d["policyholder_id"], d["claim_amount"], d["reason"], d["status"],
          d["date_of_claim"])

----------------------------------------------------------------------------
(* Clock and dates *)

\* datetime.strftime("%Y-%m-%d"): the time of day is dropped
strftime(dt) == dt.day
\* datetime.strptime(s, "%Y-%m-%d"): midnight of that day
strptime(d) == [day |-> d, tod |-> 0]
\* dt - timedelta(days=n)
minus_days(dt, n) == [day |-> dt.day - n, tod |-> dt.tod]
\* a >= b on datetimes
datetime_ge(a, b) == a.day > b.day \/ (a.day = b.day /\ a.tod >= b.tod)

----------------------------------------------------------------------------
(* Snapshot file *)

AbsentFile == [kind |-> "absent"]
MalformedFile == [kind |-> "malformed"]
ArrayFile == [kind |-> "array"]
ObjectFile(data) == [kind |-> "object", data |-> data]

\* variants with a slip: the claims are left out of the payload; a failed write
\* reaches the caller
save_payload_without_claims(phs, cls) ==
    [policyholders |-> [k \in DOMAIN phs |-> Policyholder_to_dict(phs[k])],
     claims |-> EmptyMap]

save_data_raises_uncaught(disk) == IF disk = "ok" THEN NoError ELSE "OSError"

\* the dict handed to json.dump
save_payload(phs, cls) ==
    [policyholders |-> [k \in DOMAIN phs |-> Policyholder_to_dict(phs[k])],
     claims |-> [k \in DOMAIN cls |-> Claim_to_dict(cls[k])]]

\* The file after save_data, by what the disk does: "ok" the payload is
\* written; "open_fails" open(..., 'w') raises and the file is untouched;
\* "write_fails" the file was truncated by open and json.dump raises midway,
\* which leaves text that is no JSON document.
save_data(file, phs, cls, disk) ==
    CASE disk = "ok" -> ObjectFile(save_payload(phs, cls))
      [] disk = "open_fails" -> file
      [] disk = "write_fails" -> MalformedFile

\* save_data catches every exception and shows it with st.error
save_data_reports(disk) == IF disk = "ok" THEN NoError ELSE SaveError
save_data_raises(disk) == NoError

\* data.get(key, {})
dict_get(data, key) == IF key \in DOMAIN data THEN data[key] ELSE EmptyMap

\* load_data on a store whose maps are phs and cls: the maps and the message
\* afterwards. The two assignments happen in order; an exception leaves what
\* was assigned before it.
load_data(file, phs, cls) ==
    CASE file.kind = "absent" ->
           [policyholders |-> phs, claims |-> cls, reported |-> NoError]
      [] file.kind \in {"malformed", "array"} ->
           [policyholders |-> phs, claims |-> cls, reported |-> LoadError]
      [] file.kind = "object" ->
           LET pd == dict_get(file.data, "policyholders")
               cd == dict_get(file.data, "claims")
           IN  IF \E k \in DOMAIN pd : ~Policyholder_from_dict_ok(pd[k])
               THEN [policyholders |-> phs, claims |-> cls, reported |-> LoadError]
               ELSE LET loaded == [k \in DOMAIN pd |-> Policyholder_from_dict(pd[k])]
                    IN  IF \E k \in DOMAIN cd : ~Claim_from_dict_ok(cd[k])
                        THEN [policyholders |-> loaded, claims |-> cls,
                              reported |-> LoadError]
                        ELSE [policyholders |-> loaded,
                              claims |-> [k \in DOMAIN cd |-> Claim_from_dict(cd[k])],
                              reported |-> NoError]

\* InsuranceDataManager(): empty maps, then load_data
construct(file) == load_data(file, EmptyMap, EmptyMap)

----------------------------------------------------------------------------
(* Queries *)

get_claims_by_policyholder(cls, policyholder_id) ==
    {k \in DOMAIN cls : cls[k].policyholder_id = policyholder_id}

calculate_claim_frequency(cls, policyholder_id, days, at) ==
    LET cutoff_date == minus_days(at, days)
    IN  Cardinality({k \in get_claims_by_policyholder(cls, policyholder_id) :
                        datetime_ge(strptime(cls[k].date_of_claim), cutoff_date)})

RECURSIVE total_amount(_, _)
total_amount(cls, S) ==
    IF S = {} THEN 0
    ELSE LET k == CHOOSE x \in S : TRUE
         IN  cls[k].claim_amount + total_amount(cls, S \ {k})

\* f"{claim_ratio:.2%}": the ratio in hundredths of a percent, rounded
percent2(total, sum_insured) == (2 * 10000 * total + sum_insured) \div (2 * sum_insured)

\* variant with a slip: the threshold is met, not exceeded
frequency_is_high_at_threshold(claim_frequency) == claim_frequency >= FrequencyThreshold

frequency_is_high(claim_frequency) == claim_frequency > FrequencyThreshold
ratio_is_high(total, sum_insured) == total * RatioDen > RatioNum * sum_insured

risk_factors(claim_frequency, total, sum_insured) ==
    (IF frequency_is_high(claim_frequency)
     THEN <<[factor |-> "High frequency", value |-> claim_frequency]>> ELSE <<>>)
    \o
    (IF ratio_is_high(total, sum_insured)
     THEN <<[factor |-> "High claim ratio", value |-> percent2(total, sum_insured)]>>
     ELSE <<>>)

risk_record(phs, cls, id, at) ==
    LET claim_frequency == calculate_claim_frequency(cls, id, DefaultDays, at)
        total == total_amount(cls, get_claims_by_policyholder(cls, id))
    IN  [policyholder |-> phs[id],
         claim_frequency |-> claim_frequency,
         total_claims |-> total,
         claim_ratio |-> <<total, phs[id].sum_insured>>,
         risk_factors |-> risk_factors(claim_frequency, total, phs[id].sum_insured)]

get_high_risk_policyholders(phs, cls, at) ==
    {r \in {risk_record(phs, cls, id, at) : id \in DOMAIN phs} : r.risk_factors # <<>>}

----------------------------------------------------------------------------
(* Risk analysis and reports *)

\* str.lower() on the status strings the calls pass: a string with no capital
\* letter is returned as it is
Lowercase ==
    [Pending |-> "pending", Approved |-> "approved", Rejected |-> "rejected",
     Escalated |-> "escalated", Count |-> "count"]
lower(s) == IF s \in DOMAIN Lowercase THEN Lowercase[s] ELSE s

\* the keys of the dict get_claims_by_policy_type opens for a policy type
TallyKeys == {"count", "total_amount", "pending", "approved", "rejected"}

\* self.data_manager.claims.values(): a dict is iterated in insertion order,
\* which is the order in which the ids were issued
first_claim(S) == CHOOSE k \in S : \A j \in S : k <= j

policy_type_of(phs, cls, k) == phs[cls[k].policyholder_id].policy_type

\* what the loop body of get_claims_by_policy_type raises on claim k
tally_raises(phs, cls, k) ==
    IF cls[k].policyholder_id \notin DOMAIN phs THEN KeyErrorPolicyholder
    ELSE IF lower(cls[k].status) \notin TallyKeys THEN KeyErrorStatus
    ELSE NoError

get_claims_by_policy_type_raises(phs, cls) ==
    LET failing == {k \in DOMAIN cls : tally_raises(phs, cls, k) # NoError}
    IN  IF failing = {} THEN NoError ELSE tally_raises(phs, cls, first_claim(failing))

\* the dict of one policy type after the loop: each claim adds 1 to 'count',
\* its amount to 'total_amount', and 1 to the key its lowercased status names
tally(phs, cls, policy_type) ==
    LET S == {k \in DOMAIN cls : policy_type_of(phs, cls, k) = policy_type}
        named(key) == Cardinality({k \in S : lower(cls[k].status) = key})
    IN  [count |-> Cardinality(S) + named("count"),
         total_amount |-> total_amount(cls, S) + named("total_amount"),
         pending |-> named("pending"),
         approved |-> named("approved"),
         rejected |-> named("rejected")]

get_claims_by_policy_type(phs, cls) ==
    [t \in {policy_type_of(phs, cls, k) : k \in DOMAIN cls} |-> tally(phs, cls, t)]

get_average_claim_by_policy_type_raises(phs, cls) ==
    IF \E k \in DOMAIN cls : cls[k].policyholder_id \notin DOMAIN phs
    THEN KeyErrorPolicyholder ELSE NoError

\* policy_totals[t] / policy_counts[t], kept as the pair <<total, count>>
get_average_claim_by_policy_type(phs, cls) ==
    [t \in {policy_type_of(phs, cls, k) : k \in DOMAIN cls} |->
        LET S == {k \in DOMAIN cls : policy_type_of(phs, cls, k) = t}
        IN  <<total_amount(cls, S), Cardinality(S)>>]

\* the policyholder is looked up for the pending claims only
is_pending(c) == lower(c.status) = "pending"

get_pending_claims_raises(phs, cls) ==
    IF \E k \in DOMAIN cls : is_pending(cls[k]) /\ cls[k].policyholder_id \notin DOMAIN phs
    THEN KeyErrorPolicyholder ELSE NoError

get_pending_claims(phs, cls) ==
    {[claim |-> cls[k], policyholder |-> phs[cls[k].policyholder_id]] :
        k \in {j \in DOMAIN cls : is_pending(cls[j])}}

----------------------------------------------------------------------------
(* Operations *)

\* variants with a slip, against which the properties are tested
add_policyholder_raises_negative_only(name, age, sum_insured) ==
    IF name = "" \/ age <= 0 \/ sum_insured < 0 THEN InvalidPolicyholder ELSE NoError

add_claim_raises_amount_first(phs, policyholder_id, claim_amount) ==
    IF claim_amount <= 0 THEN InvalidAmount
    ELSE IF policyholder_id \notin DOMAIN phs THEN PolicyholderNotFound
    ELSE NoError

set_status_of_all(cls, claim_id, status) ==
    [k \in DOMAIN cls |-> [cls[k] EXCEPT !.status = status]]

set_status_and_date(cls, claim_id, status) ==
    [cls EXCEPT ![claim_id].status = status, ![claim_id].date_of_claim = strftime(now)]

\* variant with a slip: the policyholder is not looked up
add_claim_raises_amount_only(phs, policyholder_id, claim_amount) ==
    IF claim_amount <= 0 THEN InvalidAmount ELSE NoError

\* the exception a call raises, or none
add_policyholder_raises(name, age, sum_insured) ==
    IF name = "" \/ age <= 0 \/ sum_insured <= 0 THEN InvalidPolicyholder ELSE NoError

add_claim_raises(phs, policyholder_id, claim_amount) ==
    IF policyholder_id \notin DOMAIN phs THEN PolicyholderNotFound
    ELSE IF claim_amount <= 0 THEN InvalidAmount
    ELSE NoError

update_claim_status_raises(cls, claim_id) ==
    IF claim_id \notin DOMAIN cls THEN ClaimNotFound ELSE NoError

\* self.claims[claim_id].status = status
set_status(cls, claim_id, status) == [cls EXCEPT ![claim_id].status = status]

add_policyholder(name, age, policy_type, sum_insured, disk) ==
    LET args == [op |-> "add_policyholder", name |-> name, age |-> age,
                 policy_type |-> policy_type, sum_insured |-> sum_insured]
        error == add_policyholder_raises(name, age, sum_insured)
    IN
    IF error # NoError
    THEN /\ call' = args @@ [raised |-> error, ret |-> 0, reported |-> NoError]
         /\ UNCHANGED <<policyholders, claims, snapshot, now, uuids>>
    ELSE /\ Cardinality(DOMAIN policyholders) < MaxPolicyholders
         /\ uuids < MaxUuids
         /\ LET policyholder_id == uuid4
            IN  /\ uuids' = policyholder_id
                /\ policyholders' = Put(policyholders, policyholder_id,
                       Policyholder(policyholder_id, name, age, policy_type, sum_insured))
                /\ snapshot' = save_data(snapshot, policyholders', claims, disk)
                /\ call' = args @@ [raised |-> save_data_raises(disk),
                                    ret |-> policyholder_id,
                                    reported |-> save_data_reports(disk)]
         /\ UNCHANGED <<claims, now>>

add_claim(policyholder_id, claim_amount, reason, status, disk) ==
    LET args == [op |-> "add_claim", policyholder_id |-> policyholder_id,
                 claim_amount |-> claim_amount, reason |-> reason, status |-> status]
        error == add_claim_raises(policyholders, policyholder_id, claim_amount)
    IN
    IF error # NoError
    THEN /\ call' = args @@ [raised |-> error, ret |-> 0, reported |-> NoError]
         /\ UNCHANGED <<policyholders, claims, snapshot, now, uuids>>
    ELSE /\ Cardinality(DOMAIN claims) < MaxClaims
         /\ uuids < MaxUuids
         /\ LET claim_id == uuid4
            IN  /\ uuids' = claim_id
                /\ claims' = Put(claims, claim_id,
                       Claim(claim_id, policyholder_id, claim_amount, reason, status,
                             strftime(now)))
                /\ snapshot' = save_data(snapshot, policyholders, claims', disk)
                /\ call' = args @@ [raised |-> save_data_raises(disk), ret |-> claim_id,
                                    reported |-> save_data_reports(disk)]
         /\ UNCHANGED <<policyholders, now>>

update_claim_status(claim_id, status, disk) ==
    LET args == [op |-> "update_claim_status", claim_id |-> claim_id, status |-> status]
        error == update_claim_status_raises(claims, claim_id)
    IN
    IF error # NoError
    THEN /\ call' = args @@ [raised |-> error, ret |-> 0, reported |-> NoError]
         /\ UNCHANGED <<policyholders, claims, snapshot, now, uuids>>
    ELSE /\ claims' = set_status(claims, claim_id, status)
         /\ snapshot' = save_data(snapshot, policyholders, claims', disk)
         /\ call' = args @@ [raised |-> save_data_raises(disk), ret |-> 0,
                             reported |-> save_data_reports(disk)]
         /\ UNCHANGED <<policyholders, now, uuids>>

claim_frequency(policyholder_id, days) ==
    /\ call' = [op |-> "calculate_claim_frequency", policyholder_id |-> policyholder_id,
                days |-> days, raised |-> NoError,
                ret |-> calculate_claim_frequency(claims, policyholder_id, days, now),
                reported |-> NoError]
    /\ UNCHANGED <<policyholders, claims, snapshot, now, uuids>>

high_risk ==
    /\ call' = [op |-> "get_high_risk_policyholders", raised |-> NoError,
                ret |-> get_high_risk_policyholders(policyholders, claims, now),
                reported |-> NoError]
    /\ UNCHANGED <<policyholders, claims, snapshot, now, uuids>>

\* a report is computed from the maps as they are; it raises at the first
\* claim its loop cannot handle and otherwise returns its result
claims_by_policy_type ==
    /\ LET error == get_claims_by_policy_type_raises(policyholders, claims)
       IN  call' = [op |-> "get_claims_by_policy_type", raised |-> error,
                    ret |-> IF error = NoError
                            THEN get_claims_by_policy_type(policyholders, claims)
                            ELSE EmptyMap,
                    reported |-> NoError]
    /\ UNCHANGED <<policyholders, claims, snapshot, now, uuids>>

average_claim_by_policy_type ==
    /\ LET error == get_average_claim_by_policy_type_raises(policyholders, claims)
       IN  call' = [op |-> "get_average_claim_by_policy_type", raised |-> error,
                    ret |-> IF error = NoError
                            THEN get_average_claim_by_policy_type(policyholders, claims)
                            ELSE EmptyMap,
                    reported |-> NoError]
    /\ UNCHANGED <<policyholders, claims, snapshot, now, uuids>>

pending_claims ==
    /\ LET error == get_pending_claims_raises(policyholders, claims)
       IN  call' = [op |-> "get_pending_claims", raised |-> error,
                    ret |-> IF error = NoError
                            THEN get_pending_claims(policyholders, claims)
                            ELSE {},
                    reported |-> NoError]
    /\ UNCHANGED <<policyholders, claims, snapshot, now, uuids>>

\* the wall clock moves on to a later sampled instant
advance_clock ==
    /\ \E t \in Instants :
          /\ datetime_ge(t, now)
          /\ t # now
          /\ now' = t
    /\ call' = [op |-> "clock", raised |-> NoError, ret |-> 0, reported |-> NoError]
    /\ UNCHANGED <<policyholders, claims, snapshot, uuids>>

\* a new session: the manager is constructed again from the snapshot
new_session ==
    /\ LET r == construct(snapshot)
       IN  /\ policyholders' = r.policyholders
           /\ claims' = r.claims
           /\ call' = [op |-> "__init__", raised |-> NoError, ret |-> 0,
                       reported |-> r.reported]
    /\ UNCHANGED <<snapshot, now, uuids>>

----------------------------------------------------------------------------
(* Specifications *)

InitCall(reported) == [op |-> "__init__", raised |-> NoError, ret |-> 0, reported |-> reported]

\* constructed with no snapshot file present
Init ==
    /\ snapshot = AbsentFile
    /\ policyholders = construct(AbsentFile).policyholders
    /\ claims = construct(AbsentFile).claims
    /\ now = [day |-> 0, tod |-> 0]
    /\ uuids = 0
    /\ call = InitCall(construct(AbsentFile).reported)

\* The store and its snapshot on a reliable disk.
Next ==
    \/ \E in \in PolicyholderInputs : add_policyholder(in[1], in[2], in[3], in[4], "ok")
    \/ \E in \in ClaimInputs({"Pending"}) : add_claim(in[1], in[2], in[3], in[4], "ok")
    \/ \E in \in StatusInputs({"Pending", "Approved"}) : update_claim_status(in[1], in[2], "ok")
    \/ new_session

Spec == Init /\ [][Next]_vars

\* Claims filed over time, and the risk queries.
NextRisk ==
    \/ \E in \in ValidPolicyholders : add_policyholder(in[1], in[2], in[3], in[4], "ok")
    \/ \E in \in ValidClaims({"Pending"}) : add_claim(in[1], in[2], in[3], in[4], "ok")
    \/ \E in \in FrequencyInputs : claim_frequency(in[1], in[2])
    \/ high_risk
    \/ advance_clock

SpecRisk == Init /\ [][NextRisk]_vars

\* Claims filed and settled over time.
NextLife ==
    \/ \E in \in PolicyholderInputs : add_policyholder(in[1], in[2], in[3], in[4], "ok")
    \/ \E in \in ClaimInputs({"Pending"}) : add_claim(in[1], in[2], in[3], in[4], "ok")
    \/ \E in \in StatusInputs({"Approved"}) : update_claim_status(in[1], in[2], "ok")
    \/ advance_clock

SpecLife == Init /\ [][NextLife]_vars

\* Claims filed and settled with any status string, and the reports over them.
\* add_claim and update_claim_status are passed a status the aggregation
\* knows, one it does not know, and one that names another key of the tally.
NextReports ==
    \/ \E in \in ValidPolicyholders : add_policyholder(in[1], in[2], in[3], in[4], "ok")
    \/ \E in \in ClaimInputs({"Pending", "Escalated"}) :
          add_claim(in[1], in[2], in[3], in[4], "ok")
    \/ \E in \in StatusInputs({"approved", "Count"}) :
          update_claim_status(in[1], in[2], "ok")
    \/ claims_by_policy_type
    \/ average_claim_by_policy_type
    \/ pending_claims

SpecReports == Init /\ [][NextReports]_vars

\* Snapshot files found at start-up: none, text that is no JSON, a JSON array,
\* a snapshot as save_data writes it, one with a claim record lacking a field,
\* one with a policyholder record carrying an unknown field, and one with no
\* "policyholders" key.
SamplePolicyholder == Policyholder_to_dict(Policyholder(1, "Ann", 30, "Health", 10))
SampleClaim == Claim_to_dict(Claim(2, 1, 2, "accident", "Pending", 0))
SampleFiles ==
    { AbsentFile, MalformedFile, ArrayFile,
      ObjectFile([policyholders |-> (1 :> SamplePolicyholder), claims |-> (2 :> SampleClaim)]),
      ObjectFile([policyholders |-> (1 :> SamplePolicyholder),
                  claims |-> (2 :> [f \in ClaimFields \ {"status"} |-> SampleClaim[f]])]),
      ObjectFile([policyholders |-> (1 :> (SamplePolicyholder @@ [email |-> "ann@example.org"])),
                  claims |-> (2 :> SampleClaim)]),
      ObjectFile([claims |-> EmptyMap]) }
DiskOutcomes == {"ok", "open_fails", "write_fails"}

\* constructed over whatever file is at the snapshot location; the ids the
\* sample files hold were issued by earlier runs
InitLoad ==
    /\ snapshot \in SampleFiles
    /\ policyholders = construct(snapshot).policyholders
    /\ claims = construct(snapshot).claims
    /\ now = [day |-> 0, tod |-> 0]
    /\ uuids = 2
    /\ call = InitCall(construct(snapshot).reported)

\* The store over an unreliable disk, across sessions.
NextDisk ==
    \/ \E in \in ValidPolicyholders, disk \in DiskOutcomes :
          add_policyholder(in[1], in[2], in[3], in[4], disk)
    \/ \E in \in ValidClaims({"Pending"}), disk \in DiskOutcomes :
          add_claim(in[1], in[2], in[3], in[4], disk)
    \/ \E in \in ValidStatusChanges({"Approved"}), disk \in DiskOutcomes :
          update_claim_status(in[1], in[2], disk)
    \/ new_session

SpecDisk == InitLoad /\ [][NextDisk]_vars

----------------------------------------------------------------------------
(* Properties *)

Mutations == {"add_policyholder", "add_claim", "update_claim_status"}

\* C1: add_claim with a policyholder id that is no key of the policyholders map
\* fails with the not-found error whatever the amount; with a known policyholder
\* and an amount <= 0 it fails with the validation error; in both cases the
\* policyholders map, the claims map and the snapshot are left as they were.
C1_AddClaimRejects ==
    [][call'.op = "add_claim" =>
         /\ call'.policyholder_id \notin DOMAIN policyholders =>
               /\ call'.raised = PolicyholderNotFound
               /\ UNCHANGED <<policyholders, claims, snapshot>>
         /\ (call'.policyholder_id \in DOMAIN policyholders /\ call'.claim_amount <= 0) =>
               /\ call'.raised = InvalidAmount
               /\ UNCHANGED <<policyholders, claims, snapshot>>]_vars

C1_Witness ==
    /\ call.op = "add_claim"
    /\ call.policyholder_id \notin DOMAIN policyholders
    /\ call.claim_amount > 0
    /\ call.raised = PolicyholderNotFound
    /\ DOMAIN policyholders # {}
    /\ DOMAIN claims # {}

\* C2: add_policyholder fails with the validation error whenever the name is
\* empty, or age <= 0, or sum_insured <= 0; then no policyholder is inserted and
\* the policyholders map, the claims map and the snapshot are left as they were.
C2_AddPolicyholderRejects ==
    [][(/\ call'.op = "add_policyholder"
        /\ (call'.name = "" \/ call'.age <= 0 \/ call'.sum_insured <= 0)) =>
         /\ call'.raised = InvalidPolicyholder
         /\ UNCHANGED <<policyholders, claims, snapshot>>]_vars

C2_Witness ==
    /\ call.op = "add_policyholder"
    /\ call.name # ""
    /\ call.age > 0
    /\ call.sum_insured = 0
    /\ call.raised = InvalidPolicyholder
    /\ Cardinality(DOMAIN policyholders) = 1

\* C3: update_claim_status on an unknown claim id fails with the not-found error
\* and changes nothing; on a known id the claim's status afterwards is the
\* supplied one, its other fields are unchanged, and every other claim and every
\* policyholder is unchanged.
C3_UpdateClaimStatus ==
    [][call'.op = "update_claim_status" =>
         IF call'.claim_id \notin DOMAIN claims
         THEN /\ call'.raised = ClaimNotFound
              /\ UNCHANGED <<policyholders, claims, snapshot>>
         ELSE /\ call'.raised = NoError
              /\ DOMAIN claims' = DOMAIN claims
              /\ claims'[call'.claim_id].status = call'.status
              /\ \A f \in ClaimFields \ {"status"} :
                    claims'[call'.claim_id][f] = claims[call'.claim_id][f]
              /\ \A k \in DOMAIN claims \ {call'.claim_id} : claims'[k] = claims[k]
              /\ policyholders' = policyholders]_vars

C3_Witness ==
    /\ call.op = "update_claim_status"
    /\ call.raised = NoError
    /\ claims[call.claim_id].status = "Approved"
    /\ \E k \in DOMAIN claims : k # call.claim_id /\ claims[k].status = "Pending"

\* C4: calculate_claim_frequency(policyholder_id, days) returns the number of
\* that policyholder's claims dated in [today - days, today] by calendar date,
\* at whatever time of day it is called: a claim dated exactly days days before
\* today is counted, one dated days + 1 days before today is not.
C4_FrequencyByCalendarDate ==
    call.op = "calculate_claim_frequency" =>
        call.ret = Cardinality({k \in DOMAIN claims :
                                   /\ claims[k].policyholder_id = call.policyholder_id
                                   /\ now.day - call.days <= claims[k].date_of_claim
                                   /\ claims[k].date_of_claim <= now.day})

\* the sum of claim_amount over the claims of S, for the statement of C7
RECURSIVE C7_Sum(_)
C7_Sum(S) ==
    IF S = {} THEN 0
    ELSE LET k == CHOOSE x \in S : TRUE IN claims[k].claim_amount + C7_Sum(S \ {k})

C7_Factors(r) == [i \in DOMAIN r.risk_factors |-> r.risk_factors[i].factor]

\* C7: get_high_risk_policyholders returns a record for a policyholder if and
\* only if frequency > 3 or ratio > 0.8, with frequency the value of
\* calculate_claim_frequency(id, 365) and ratio the sum of claim_amount over all
\* of the policyholder's claims divided by sum_insured; the record's reasons are
\* one per triggered condition, the frequency reason before the ratio reason.
C7_HighRisk ==
    call.op = "get_high_risk_policyholders" =>
        /\ \A r \in call.ret : r.policyholder.id \in DOMAIN policyholders
        /\ \A id \in DOMAIN policyholders :
              LET frequency == calculate_claim_frequency(claims, id, 365, now)
                  total == C7_Sum({k \in DOMAIN claims : claims[k].policyholder_id = id})
                  by_frequency == frequency > 3
                  by_ratio == 5 * total > 4 * policyholders[id].sum_insured
                  records == {r \in call.ret : r.policyholder.id = id}
              IN  /\ (records # {}) <=> (by_frequency \/ by_ratio)
                  /\ Cardinality(records) <= 1
                  /\ \A r \in records :
                        /\ r.policyholder = policyholders[id]
                        /\ r.claim_frequency = frequency
                        /\ r.total_claims = total
                        /\ C7_Factors(r) =
                              (IF by_frequency THEN <<"High frequency">> ELSE <<>>)
                              \o (IF by_ratio THEN <<"High claim ratio">> ELSE <<>>)

\* frequency = 3 with ratio = 1.2 yields the ratio reason only, while another
\* policyholder with a claim is omitted, and one claim lies outside the window
C7_Witness ==
    /\ call.op = "get_high_risk_policyholders"
    /\ \E r \in call.ret :
          /\ r.claim_frequency = 3
          /\ 5 * r.total_claims = 6 * r.policyholder.sum_insured
          /\ C7_Factors(r) = <<"High claim ratio">>
    /\ \E id \in DOMAIN policyholders :
          /\ \A r \in call.ret : r.policyholder.id # id
          /\ \E k \in DOMAIN claims : claims[k].policyholder_id = id

\* frequency = 4 with ratio <= 0.8 yields the frequency reason only
C7_WitnessFrequency ==
    /\ call.op = "get_high_risk_policyholders"
    /\ \E r \in call.ret :
          /\ r.claim_frequency = 4
          /\ C7_Factors(r) = <<"High frequency">>

\* the total counts a claim that the frequency window leaves out
C7_WitnessNotWindowed ==
    /\ call.op = "get_high_risk_policyholders"
    /\ \E r \in call.ret : r.claim_frequency * 2 < r.total_claims

\* C5: when load_data meets a deserialization failure (malformed JSON, or a
\* policyholder or claim record with missing or extra fields), both in-memory
\* maps are empty afterwards, the policyholders map included when only a claim
\* record is malformed, and the construction of the store does not abort.
C5_LoadFailureLeavesBothEmpty ==
    (call.op = "__init__" /\ call.reported = LoadError) =>
        /\ call.raised = NoError
        /\ policyholders = EmptyMap
        /\ claims = EmptyMap

\* C6: saving any store state reachable through add_policyholder, add_claim and
\* update_claim_status and loading the snapshot into a fresh store yields maps
\* with the same ids and, for each id, the same fields; a new session built
\* over the snapshot the last mutation wrote holds the same maps.
C6_RoundTrip ==
    /\ [](LET fresh == construct(save_data(snapshot, policyholders, claims, "ok"))
          IN  /\ fresh.reported = NoError
              /\ DOMAIN fresh.policyholders = DOMAIN policyholders
              /\ DOMAIN fresh.claims = DOMAIN claims
              /\ \A k \in DOMAIN policyholders : \A f \in PolicyholderFields :
                    fresh.policyholders[k][f] = policyholders[k][f]
              /\ \A k \in DOMAIN claims : \A f \in ClaimFields :
                    fresh.claims[k][f] = claims[k][f])
    /\ [][call'.op = "__init__" =>
            /\ call'.reported = NoError
            /\ policyholders' = policyholders
            /\ claims' = claims]_vars

\* a new session over a snapshot of many records, one with a changed status
C6_Witness ==
    /\ call.op = "__init__"
    /\ Cardinality(DOMAIN policyholders) = 2
    /\ Cardinality(DOMAIN claims) >= 2
    /\ \E k \in DOMAIN claims : claims[k].status = "Approved"
    /\ snapshot.kind = "object"

\* the snapshot is the full serialization of both in-memory maps
SnapshotIsCurrent ==
    /\ snapshot.kind = "object"
    /\ DOMAIN snapshot.data = {"policyholders", "claims"}
    /\ DOMAIN snapshot.data["policyholders"] = DOMAIN policyholders
    /\ DOMAIN snapshot.data["claims"] = DOMAIN claims
    /\ \A k \in DOMAIN policyholders :
          /\ DOMAIN snapshot.data["policyholders"][k] = PolicyholderFields
          /\ \A f \in PolicyholderFields :
                snapshot.data["policyholders"][k][f] = policyholders[k][f]
    /\ \A k \in DOMAIN claims :
          /\ DOMAIN snapshot.data["claims"][k] = ClaimFields
          /\ \A f \in ClaimFields : snapshot.data["claims"][k][f] = claims[k][f]

\* the ids of the records a fresh store would load from a file
LoadedIds(file) == DOMAIN construct(file).policyholders \cup DOMAIN construct(file).claims

\* a mutating call returned normally and its write succeeded
Saved(c) == c.op \in Mutations /\ c.raised = NoError /\ c.reported = NoError

\* C8: after every successful add_policyholder, add_claim or update_claim_status
\* whose write succeeds, the snapshot holds the full serialization of both maps
\* as they are after the mutation; and a snapshot equal to the in-memory state
\* stays equal to it over every operation whose write does not fail.
C8_SnapshotFollowsMutations ==
    [][/\ Saved(call') => SnapshotIsCurrent'
       /\ (SnapshotIsCurrent /\ call'.reported # SaveError) => SnapshotIsCurrent']_vars

C8_Witness ==
    /\ Saved(call)
    /\ call.op = "update_claim_status"
    /\ SnapshotIsCurrent
    /\ Cardinality(DOMAIN claims) >= 2
    /\ Cardinality(DOMAIN policyholders) >= 2

\* C9: a write failure in save_data neither aborts nor rolls back the mutating
\* call: no error is raised, add_policyholder and add_claim insert the record
\* and return its id, update_claim_status sets the status; the snapshot is not
\* brought up to date (the record added is not in it) and gains no record until
\* a mutating call saves successfully, after which it equals the in-memory state.
C9_WriteFailureDoesNotAbort ==
    [][/\ (call'.op \in Mutations /\ call'.reported = SaveError) =>
            /\ call'.raised = NoError
            /\ snapshot' \in {snapshot, MalformedFile}
            /\ call'.op = "add_policyholder" =>
                  /\ call'.ret \notin DOMAIN policyholders
                  /\ call'.ret \in DOMAIN policyholders'
                  /\ policyholders'[call'.ret] =
                        [id |-> call'.ret, name |-> call'.name, age |-> call'.age,
                         policy_type |-> call'.policy_type,
                         sum_insured |-> call'.sum_insured]
                  /\ call'.ret \notin LoadedIds(snapshot')
            /\ call'.op = "add_claim" =>
                  /\ call'.ret \notin DOMAIN claims
                  /\ call'.ret \in DOMAIN claims'
                  /\ claims'[call'.ret] =
                        [id |-> call'.ret, policyholder_id |-> call'.policyholder_id,
                         claim_amount |-> call'.claim_amount, reason |-> call'.reason,
                         status |-> call'.status, date_of_claim |-> now.day]
                  /\ call'.ret \notin LoadedIds(snapshot')
            /\ call'.op = "update_claim_status" =>
                  /\ DOMAIN claims' = DOMAIN claims
                  /\ claims'[call'.claim_id].status = call'.status
       /\ ~Saved(call') => LoadedIds(snapshot') \subseteq LoadedIds(snapshot)
       /\ (~SnapshotIsCurrent /\ Saved(call')) => SnapshotIsCurrent']_vars

\* a write has failed: the claim is in memory, its id was returned, and the
\* snapshot still is the earlier one, without it
C9_Witness ==
    /\ call.op = "add_claim"
    /\ call.reported = SaveError
    /\ call.raised = NoError
    /\ call.ret \in DOMAIN claims
    /\ snapshot.kind = "object"
    /\ call.ret \notin LoadedIds(snapshot)
    /\ DOMAIN policyholders \subseteq LoadedIds(snapshot)

\* C10: over every call, a record once inserted is never removed and its id is
\* never reused: every policyholder keeps all of its fields, and every claim
\* keeps its id, policyholder_id, claim_amount, reason and date_of_claim, the
\* status being the only field that changes.
C10_RecordsArePermanent ==
    [][/\ \A k \in DOMAIN policyholders :
             k \in DOMAIN policyholders' /\ policyholders'[k] = policyholders[k]
       /\ \A k \in DOMAIN claims :
             /\ k \in DOMAIN claims'
             /\ \A f \in ClaimFields \ {"status"} : claims'[k][f] = claims[k][f]
       /\ \A k \in DOMAIN policyholders' \ DOMAIN policyholders :
             k > uuids /\ policyholders'[k].id = k
       /\ \A k \in DOMAIN claims' \ DOMAIN claims :
             k > uuids /\ claims'[k].id = k]_vars

\* a claim filed on the first day has had its status changed on a later day,
\* after another claim was filed that day
C10_Witness ==
    /\ call.op = "update_claim_status"
    /\ call.raised = NoError
    /\ now.day > claims[call.claim_id].date_of_claim
    /\ \E k \in DOMAIN claims : claims[k].date_of_claim = now.day /\ claims[k].status = "Pending"
    /\ Cardinality(DOMAIN policyholders) = 2

\* the three status literals the aggregation is written for
RecognizedStatuses == {"pending", "approved", "rejected"}
AllRecognized == \A k \in DOMAIN claims : lower(claims[k].status) \in RecognizedStatuses

\* C11: add_claim and update_claim_status store whatever status string they
\* are passed; in every state in which some claim's status does not lowercase
\* to "pending", "approved" or "rejected", get_claims_by_policy_type fails, and
\* in every state in which all statuses do, it succeeds and each policy type's
\* count equals pending + approved + rejected.
C11_UnrecognizedStatusFailsAggregation ==
    /\ (call.op = "add_claim" /\ call.raised = NoError)
          => claims[call.ret].status = call.status
    /\ (call.op = "update_claim_status" /\ call.raised = NoError)
          => claims[call.claim_id].status = call.status
    /\ call.op = "get_claims_by_policy_type" =>
          IF AllRecognized
          THEN /\ call.raised = NoError
               /\ \A t \in DOMAIN call.ret :
                     call.ret[t].count
                        = call.ret[t].pending + call.ret[t].approved + call.ret[t].rejected
          ELSE call.raised # NoError

\* the aggregation fails exactly when some status lowercases to no key of the
\* tally, and a status that names the key 'count' or 'total_amount' is added
\* to that key
AggregationFailsOnUnknownKey ==
    /\ (call.op = "add_claim" /\ call.raised = NoError)
          => claims[call.ret].status = call.status
    /\ (call.op = "update_claim_status" /\ call.raised = NoError)
          => claims[call.claim_id].status = call.status
    /\ call.op = "get_claims_by_policy_type" =>
          IF \A k \in DOMAIN claims : lower(claims[k].status) \in TallyKeys
          THEN /\ call.raised = NoError
               /\ \A t \in DOMAIN call.ret :
                     LET S == {k \in DOMAIN claims :
                                  policy_type_of(policyholders, claims, k) = t}
                     IN  call.ret[t].count
                            = call.ret[t].pending + call.ret[t].approved
                              + call.ret[t].rejected
                              + 2 * Cardinality({k \in S : lower(claims[k].status) = "count"})
          ELSE call.raised = KeyErrorStatus

\* a claim whose status names the key 'count' is aggregated without a failure
\* and counted twice
UnrecognizedStatusAggregated ==
    /\ call.op = "get_claims_by_policy_type"
    /\ call.raised = NoError
    /\ \E k \in DOMAIN claims : claims[k].status = "Count"
    /\ \E t \in DOMAIN call.ret : call.ret[t].count > Cardinality(DOMAIN claims)

\* a claim with a status unknown to the tally makes the aggregation fail
UnknownStatusFails ==
    /\ call.op = "get_claims_by_policy_type"
    /\ call.raised = KeyErrorStatus
    /\ \E k \in DOMAIN claims : claims[k].status = "Escalated"

\* statuses in capitals and in lower case are told apart only by lower()
RecognizedStatusesTallied ==
    /\ call.op = "get_claims_by_policy_type"
    /\ call.raised = NoError
    /\ \E t \in DOMAIN call.ret : call.ret[t].pending >= 1 /\ call.ret[t].approved >= 1

Reports ==
    {"get_claims_by_policy_type", "get_average_claim_by_policy_type", "get_pending_claims"}

\* C12: in every state reached from the empty store through add_policyholder,
\* add_claim and update_claim_status, rejected calls included, every claim's
\* policyholder_id is a key of the policyholders map, and the policyholder
\* lookups of get_claims_by_policy_type, get_average_claim_by_policy_type and
\* get_pending_claims never meet a missing id.
C12_ReferentialIntegrity ==
    /\ \A k \in DOMAIN claims : claims[k].policyholder_id \in DOMAIN policyholders
    /\ call.op \in Reports => call.raised # KeyErrorPolicyholder

\* a report that looks up the policyholders of claims of both policy types
C12_Witness ==
    /\ call.op = "get_average_claim_by_policy_type"
    /\ call.raised = NoError
    /\ DOMAIN call.ret = {"Health", "Life"}
    /\ Cardinality(DOMAIN claims) = MaxClaims

\* a claim for an id that is no policyholder's was just turned down, with
\* claims on file
C12_WitnessRejected ==
    /\ call.op = "add_claim"
    /\ call.raised = PolicyholderNotFound
    /\ call.policyholder_id \notin DOMAIN policyholders
    /\ claims # EmptyMap

====
